---- MODULE Spec2Model ----
(***************************************************************************)
(* Model of the master-side Modbus RTU engine of STM32/modBusRTU.c:        *)
(* modbusRTUInit, modbusRTUSendData, modbusRTUReciveData and               *)
(* modbusRTUCheckRxState over the two static packets txPacket / rxPacket,  *)
(* together with the UART receive-complete interrupt and the timer that    *)
(* modbusRTUInit starts.                                                   *)
(***************************************************************************)
EXTENDS Integers, Sequences, FiniteSets, TLC

(* ------------------------------------------------------------------ *)
(* Program constants (modBusRTU.h, modBusRTU.c)                        *)
(* ------------------------------------------------------------------ *)
MODBUS_RTU_MAX_DATA_SIZE == 250
MODBUS_RTU_RECEIVED_TIMEOUT == 100
CrcInit == 65535
CrcPoly == 40961

\* sizeof(modBusPacket_t): slaveId + functionCode + data[MAX_DATA_SIZE + 2]
PacketSize == MODBUS_RTU_MAX_DATA_SIZE + 4

\* ModbusRTU_ErrorT
MODBUS_RTU_SUCCESS == "MODBUS_RTU_SUCCESS"
MODBUS_RTU_ERROR_CRC == "MODBUS_RTU_ERROR_CRC"
MODBUS_RTU_ERROR_RX_TIMEOUT == "MODBUS_RTU_ERROR_RX_TIMEOUT"
MODBUS_RTU_ERROR_TX_FAILED == "MODBUS_RTU_ERROR_TX_FAILED"
MODBUS_RTU_ERROR_INVALID_SLAVE_ID == "MODBUS_RTU_ERROR_INVALID_SLAVE_ID"
MODBUS_RTU_ERROR_INVALID_FRAME == "MODBUS_RTU_ERROR_INVALID_FRAME"
MODBUS_RTU_RX_BUSY == "MODBUS_RTU_RX_BUSY"

\* The results of modbusRTUCheckRxState that end a transaction.
Terminal == {MODBUS_RTU_SUCCESS, MODBUS_RTU_ERROR_CRC,
             MODBUS_RTU_ERROR_INVALID_SLAVE_ID, MODBUS_RTU_ERROR_RX_TIMEOUT}

(* ------------------------------------------------------------------ *)
(* Bounds of the model                                                 *)
(* ------------------------------------------------------------------ *)
\* Payload lengths 1..MaxSmallLen are enumerated next to the boundary lengths.
MaxSmallLen == 1
\* Time advances TickStep units per Tick; the stopwatch saturates at MaxTime.
TickStep == 50
MaxTime == 100
\* Calls of modbusRTUSendData and modbusRTUReciveData in one run.
MaxCalls == 3
\* Content of the caller's output buffer before any check wrote to it.
UserFill == 238
\* Longest byte sequence, the known-answer string apart, given to
\* ModbusRTU_CalculateCRC when it is run on its own.
MaxCrcLen == 4

Min(a, b) == IF a < b THEN a ELSE b

(* ------------------------------------------------------------------ *)
(* ModbusRTU_CalculateCRC, on uint16_t / uint8_t values                *)
(* ------------------------------------------------------------------ *)
\* Bit k of x.
Bit(x, k) == (x \div (2 ^ k)) % 2

\* x with bit k inverted: x ^ (1 << k)
InvertBit(x, k) == IF Bit(x, k) = 1 THEN x - 2 ^ k ELSE x + 2 ^ k

\* a ^ b for 4-bit a and b, tabulated.
Xor4 ==
  [a \in 0..15 |-> [b \in 0..15 |->
     LET x(k) == (Bit(a, k) + Bit(b, k)) % 2
     IN  x(0) + 2 * x(1) + 4 * x(2) + 8 * x(3)]]

\* crc ^= data[i]: a byte is exclusive-ored into the low byte of the accumulator.
XorByte(crc, byte) ==
  (crc - (crc % 256))
  + 16 * Xor4[(crc \div 16) % 16][byte \div 16]
  + Xor4[crc % 16][byte % 16]

\* crc ^= 0xA001, for crc already shifted right (bit 15 clear): CrcPoly has
\* bits 15, 13 and 0 set.
XorPoly(crc) == InvertBit(InvertBit(crc + (CrcPoly - 8193), 13), 0)

RECURSIVE CrcShift(_, _)
\* for (j = 0; j < 8; j++) { if (crc & 1) { crc >>= 1; crc ^= 0xA001; } else crc >>= 1; }
\* run for the j steps that remain.
CrcShift(crc, j) ==
  IF j = 0 THEN crc
  ELSE CrcShift(IF crc % 2 = 1 THEN XorPoly(crc \div 2) ELSE crc \div 2, j - 1)

\* The inner loop on every 16-bit accumulator, evaluated once.
CrcShift8 == [crc \in 0..CrcInit |-> CrcShift(crc, 8)]

RECURSIVE CrcLoop(_, _, _, _)
\* for (i = from; i < to; i++) { crc ^= data[i]; <inner loop> }
\* The iterations from..to-1 are run as two halves one after the other (the
\* first half is evaluated before the second starts), which keeps the
\* evaluation shallow for a 250-byte payload.
CrcLoop(data, from, to, crc) ==
  IF from >= to THEN crc
  ELSE IF to = from + 1 THEN CrcShift8[XorByte(crc, data[from])]
  ELSE LET mid == (from + to) \div 2
           half == CrcLoop(data, from, mid, crc)
       IN  IF half >= 0 THEN CrcLoop(data, mid, to, half) ELSE half

\* Mutant of ModbusRTU_CalculateCRC: the accumulator starts at 0.
ModbusRTU_CalculateCRC_ZeroInit(data, length) == CrcLoop(data, 0, length, 0)

\* static uint16_t ModbusRTU_CalculateCRC(uint8_t *data, size_t length);
\* data is a packet, a function on byte offsets 0..PacketSize-1.
ModbusRTU_CalculateCRC(data, length) == CrcLoop(data, 0, length, CrcInit)

(* ------------------------------------------------------------------ *)
(* State                                                               *)
(* ------------------------------------------------------------------ *)
VARIABLES
  slaveId,           \* modbus->slaveId
  isRxDataReceived,  \* modbus->isRxDataReceived
  txPacket,          \* static modBusPacket_t txPacket, by byte offset
  rxPacket,          \* static modBusPacket_t rxPacket, by byte offset
  userData,          \* the caller's buffer passed to modbusRTUCheckRxState
  wire,              \* bytes handed to HAL_UART_Transmit by the last modbusRTUSendData
  rxXferSize,        \* bytes the UART is armed to receive into rxPacket (0: not armed)
  pc,                \* position of the main flow inside modbusRTUCheckRxState
  result,            \* local `result` of the last modbusRTUCheckRxState
  checkSize,         \* argument dataSize of the last modbusRTUCheckRxState that saw the flag set
  ret,               \* value returned by the last completed call
  op,                \* the last step taken
  txn,               \* history: phase of the transaction begun by the last successful send
  elapsed,           \* history: time since the last successful modbusRTUReciveData
  calls,             \* history: calls of modbusRTUSendData / modbusRTUReciveData so far
  txCount,           \* history: calls of HAL_UART_Transmit so far
  crcData,           \* bytes given to ModbusRTU_CalculateCRC when it is run on its own
  crcValue           \* value ModbusRTU_CalculateCRC returned for crcData

vars == <<slaveId, isRxDataReceived, txPacket, rxPacket, userData, wire,
          rxXferSize, pc, result, checkSize, ret, op, txn, elapsed, calls,
          txCount, crcData, crcValue>>

(* ------------------------------------------------------------------ *)
(* Inputs                                                              *)
(* ------------------------------------------------------------------ *)
\* Slave ids given to modbusRTUInit.
SlaveIds == {1, 17}
\* MODBUS_FUNC_READ_HOLDING_REGISTERS
FunctionCodes == {3}

\* Short payloads 48, 49, ...; with slave 17 and function 3 the frame of <<48>>
\* has a CRC whose two bytes are equal (0x2121).
SmallPayloads == {[i \in 1..n |-> 47 + i] : n \in 1..MaxSmallLen}

\* The payloads at and just above MODBUS_RTU_MAX_DATA_SIZE.
EdgePayload(n) == [i \in 1..n |-> 170]
MaxPayload == EdgePayload(MODBUS_RTU_MAX_DATA_SIZE)
OversizePayload == EdgePayload(MODBUS_RTU_MAX_DATA_SIZE + 1)

\* Payloads and dataSize arguments of the free-running engine: short ones and,
\* for modbusRTUSendData and modbusRTUReciveData, the first size refused.
TxPayloads == SmallPayloads \cup {OversizePayload}
DataSizes == (1..MaxSmallLen) \cup {MODBUS_RTU_MAX_DATA_SIZE + 1}
CheckSizes == 1..MaxSmallLen

\* What a read one byte past rxPacket may yield.
OobBytes == {0, 255}

(* ------------------------------------------------------------------ *)
(* Packets and frames                                                  *)
(* ------------------------------------------------------------------ *)
\* static modBusPacket_t txPacket = { 0 }, rxPacket = { 0 };
ZeroPacket == [i \in 0..(PacketSize - 1) |-> 0]

\* The first len bytes of a packet, as they travel on the wire.
Frame(pkt, len) == [i \in 0..(len - 1) |-> pkt[i]]

\* Mutant of BuildFrame: the slave id is not written into the packet.
BuildFrame_NoSlaveId(pkt, sid, functionCode, data, dataSize) ==
  LET filled == [i \in 0..(PacketSize - 1) |->
                   IF i = 1 THEN functionCode
                   ELSE IF i >= 2 /\ i - 2 < dataSize THEN data[i - 1]
                   ELSE pkt[i]]
      calCrc == ModbusRTU_CalculateCRC(filled, dataSize + 2)
  IN  [filled EXCEPT ![dataSize + 2] = calCrc % 256,
                     ![dataSize + 3] = (calCrc \div 256) % 256]

\* Mutant of BuildFrame: the CRC is stored high byte first.
BuildFrame_CrcHighFirst(pkt, sid, functionCode, data, dataSize) ==
  LET filled == [i \in 0..(PacketSize - 1) |->
                   IF i = 0 THEN sid
                   ELSE IF i = 1 THEN functionCode
                   ELSE IF i - 2 < dataSize THEN data[i - 1]
                   ELSE pkt[i]]
      calCrc == ModbusRTU_CalculateCRC(filled, dataSize + 2)
  IN  [filled EXCEPT ![dataSize + 2] = (calCrc \div 256) % 256,
                     ![dataSize + 3] = calCrc % 256]

\* Lines 109-117 of modbusRTUSendData: the packet after the frame was built.
\* data is the caller's buffer (a sequence), dataSize <= MODBUS_RTU_MAX_DATA_SIZE.
BuildFrame(pkt, sid, functionCode, data, dataSize) ==
  LET filled == [i \in 0..(PacketSize - 1) |->
                   IF i = 0 THEN sid
                   ELSE IF i = 1 THEN functionCode
                   ELSE IF i - 2 < dataSize THEN data[i - 1]
                   ELSE pkt[i]]
      calCrc == ModbusRTU_CalculateCRC(filled, dataSize + 2)
  IN  [filled EXCEPT ![dataSize + 2] = calCrc % 256,
                     ![dataSize + 3] = (calCrc \div 256) % 256]

\* Mutant of InvalidDataSize: the size test written with >= for >.
InvalidDataSize_OffByOne(dataSize) == dataSize >= MODBUS_RTU_MAX_DATA_SIZE

\* if (dataSize > MODBUS_RTU_MAX_DATA_SIZE), the test at the head of
\* modbusRTUSendData and of modbusRTUReciveData.
InvalidDataSize(dataSize) == dataSize > MODBUS_RTU_MAX_DATA_SIZE

\* rxPacket.data[k], read as the build may read it: the byte after the packet
\* when dataSize is past MODBUS_RTU_MAX_DATA_SIZE.
RxByte(pkt, i, oob) == IF i < PacketSize THEN pkt[i] ELSE oob

\* Mutant of CheckFrame: the CRC is compared before the slave id.
CheckFrame_CrcFirst(pkt, sid, dataSize, oob) ==
  LET calCrc == ModbusRTU_CalculateCRC(pkt, dataSize + 2)
      receivedCRC == RxByte(pkt, dataSize + 2, oob) * 256
                     + RxByte(pkt, dataSize + 3, oob)
  IN  IF calCrc # receivedCRC THEN MODBUS_RTU_ERROR_CRC
      ELSE IF pkt[0] # sid THEN MODBUS_RTU_ERROR_INVALID_SLAVE_ID
      ELSE MODBUS_RTU_SUCCESS

\* Mutant of CheckFrame: the CRC comparison written with == for !=.
CheckFrame_CrcTestInverted(pkt, sid, dataSize, oob) ==
  IF pkt[0] # sid THEN MODBUS_RTU_ERROR_INVALID_SLAVE_ID
  ELSE LET calCrc == ModbusRTU_CalculateCRC(pkt, dataSize + 2)
           receivedCRC == RxByte(pkt, dataSize + 2, oob) * 256
                          + RxByte(pkt, dataSize + 3, oob)
       IN  IF calCrc = receivedCRC THEN MODBUS_RTU_ERROR_CRC
           ELSE MODBUS_RTU_SUCCESS

\* Lines 173-189 of modbusRTUCheckRxState: the verdict on the received packet.
CheckFrame(pkt, sid, dataSize, oob) ==
  IF pkt[0] # sid THEN MODBUS_RTU_ERROR_INVALID_SLAVE_ID
  ELSE LET calCrc == ModbusRTU_CalculateCRC(pkt, dataSize + 2)
           receivedCRC == RxByte(pkt, dataSize + 2, oob) * 256
                          + RxByte(pkt, dataSize + 3, oob)
       IN  IF calCrc # receivedCRC THEN MODBUS_RTU_ERROR_CRC
           ELSE MODBUS_RTU_SUCCESS

\* memcpy(data, rxPacket.data, dataSize)
Unpack(buf, pkt, dataSize) ==
  [i \in DOMAIN buf |-> IF i < dataSize THEN pkt[i + 2] ELSE buf[i]]

(* ------------------------------------------------------------------ *)
(* What the bus delivers into an armed receive                         *)
(* ------------------------------------------------------------------ *)
\* Frame f with bit k (bit k % 8 of byte k \div 8) inverted.
FlipBit(f, k) == [f EXCEPT ![k \div 8] = InvertBit(f[k \div 8], k % 8)]

\* Frame f of n payload bytes with its CRC recomputed and stored low byte first.
WithCrc(f, n) ==
  LET c == ModbusRTU_CalculateCRC(f, n + 2)
  IN  [f EXCEPT ![n + 2] = c % 256, ![n + 3] = c \div 256]

\* Frame f of n payload bytes with its two CRC bytes exchanged.
SwapCrc(f, n) == [f EXCEPT ![n + 2] = f[n + 3], ![n + 3] = f[n + 2]]

OtherSlave(sid) == IF sid = 1 THEN 17 ELSE 1

\* The frames of len bytes the bus may deliver: the transmit packet looped
\* back, the same frame from another slave (short frames), and either of
\* them with the CRC bytes in the opposite order.
Responses(len) ==
  LET n == len - 4
      echo == Frame(txPacket, len)
      other == WithCrc([echo EXCEPT ![0] = OtherSlave(echo[0])], n)
      base == IF n <= MaxSmallLen THEN {echo, other} ELSE {echo}
  IN  base \cup {SwapCrc(f, n) : f \in base}

(* ------------------------------------------------------------------ *)
(* Initial state: after modbusRTUInit                                  *)
(* ------------------------------------------------------------------ *)
\* modbusRTUInit stores huart, htim and slaveId and starts the timer; it does
\* not write isRxDataReceived, which keeps whatever the handle's memory held.
Init ==
  /\ slaveId \in SlaveIds
  /\ isRxDataReceived \in BOOLEAN
  /\ txPacket = ZeroPacket
  /\ rxPacket = ZeroPacket
  /\ userData = [i \in 0..MODBUS_RTU_MAX_DATA_SIZE |-> UserFill]
  /\ wire = <<>>
  /\ rxXferSize = 0
  /\ pc = "idle"
  /\ result = MODBUS_RTU_SUCCESS
  /\ checkSize = 0
  /\ ret = MODBUS_RTU_SUCCESS
  /\ op = "init"
  /\ txn = "none"
  /\ elapsed = 0
  /\ calls = 0
  /\ txCount = 0
  /\ crcData = <<>>
  /\ crcValue = ModbusRTU_CalculateCRC(ZeroPacket, 0)

(* ------------------------------------------------------------------ *)
(* History of the transaction                                          *)
(* ------------------------------------------------------------------ *)
\* txn is "none" before the first successful send, "sent" after a successful
\* send, "armed" after the first successful modbusRTUReciveData that follows,
\* "resolved" once a check returned a terminal result, "twice" when a second
\* terminal result was returned for the same send, and "rearmed" when
\* modbusRTUReciveData succeeded a second time for the same send.
AfterReceive(t) ==
  IF t = "sent" THEN "armed"
  ELSE IF t \in {"armed", "resolved", "twice"} THEN "rearmed"
  ELSE t

AfterVerdict(t) ==
  IF t \in {"sent", "armed"} THEN "resolved"
  ELSE IF t = "resolved" THEN "twice"
  ELSE t

\* A transaction was submitted and no terminal result was returned for it.
Pending == txn \in {"sent", "armed"}

(* ------------------------------------------------------------------ *)
(* Operations                                                          *)
(* ------------------------------------------------------------------ *)
\* Mutant of modbusRTUSendData: a failed HAL_UART_Transmit is tried once more.
modbusRTUSendData_RetryOnce(functionCode, data, dataSize, halOk) ==
  /\ pc = "idle"
  /\ calls < MaxCalls
  /\ IF InvalidDataSize(dataSize)
     THEN /\ ret' = MODBUS_RTU_ERROR_INVALID_FRAME
          /\ wire' = <<>>
          /\ UNCHANGED <<txPacket, txCount>>
     ELSE /\ txPacket' = BuildFrame(txPacket, slaveId, functionCode, data, dataSize)
          /\ wire' = [i \in 1..(dataSize + 4) |-> txPacket'[i - 1]]
          /\ txCount' = IF halOk THEN txCount + 1 ELSE txCount + 2
          /\ ret' = IF halOk THEN MODBUS_RTU_SUCCESS ELSE MODBUS_RTU_ERROR_TX_FAILED
  /\ op' = "send"
  /\ txn' = IF ret' = MODBUS_RTU_SUCCESS THEN "sent" ELSE txn
  /\ calls' = calls + 1
  /\ UNCHANGED <<slaveId, isRxDataReceived, rxPacket, userData, rxXferSize,
                 pc, result, checkSize, elapsed, crcData, crcValue>>

\* modbusRTUSendData(modbus, functionCode, data, dataSize); halOk is the
\* outcome of HAL_UART_Transmit.
modbusRTUSendData(functionCode, data, dataSize, halOk) ==
  /\ pc = "idle"
  /\ calls < MaxCalls
  /\ IF InvalidDataSize(dataSize)
     THEN /\ ret' = MODBUS_RTU_ERROR_INVALID_FRAME
          /\ wire' = <<>>
          /\ UNCHANGED <<txPacket, txCount>>
     ELSE /\ txPacket' = BuildFrame(txPacket, slaveId, functionCode, data, dataSize)
          /\ wire' = [i \in 1..(dataSize + 4) |-> txPacket'[i - 1]]
          /\ txCount' = txCount + 1
          /\ ret' = IF halOk THEN MODBUS_RTU_SUCCESS ELSE MODBUS_RTU_ERROR_TX_FAILED
  /\ op' = "send"
  /\ txn' = IF ret' = MODBUS_RTU_SUCCESS THEN "sent" ELSE txn
  /\ calls' = calls + 1
  /\ UNCHANGED <<slaveId, isRxDataReceived, rxPacket, userData, rxXferSize,
                 pc, result, checkSize, elapsed, crcData, crcValue>>

\* modbusRTUReciveData(modbus, dataSize).  HAL_UART_Receive_IT arms the UART
\* unless a receive is already in progress (its status is not looked at).
modbusRTUReciveData(dataSize) ==
  /\ pc = "idle"
  /\ calls < MaxCalls
  /\ IF InvalidDataSize(dataSize)
     THEN /\ ret' = MODBUS_RTU_ERROR_INVALID_FRAME
          /\ UNCHANGED <<rxXferSize, txn, elapsed>>
     ELSE /\ rxXferSize' = IF rxXferSize = 0 THEN dataSize + 4 ELSE rxXferSize
          /\ ret' = MODBUS_RTU_SUCCESS
          /\ txn' = AfterReceive(txn)
          /\ elapsed' = 0
  /\ op' = "receive"
  /\ calls' = calls + 1
  /\ UNCHANGED <<slaveId, isRxDataReceived, txPacket, rxPacket, userData, wire,
                 pc, result, checkSize, txCount, crcData, crcValue>>

\* The completion notification, called by the transport when the armed byte
\* count has arrived: it sets the "data received" flag.
RxCpltCallback == isRxDataReceived' = TRUE

\* The UART interrupt stores the armed number of bytes into rxPacket and then
\* gives the completion notification.  It may run inside modbusRTUCheckRxState.
RxComplete(frame) ==
  /\ rxXferSize # 0
  /\ rxPacket' = [i \in 0..(PacketSize - 1) |->
                    IF i < rxXferSize THEN frame[i] ELSE rxPacket[i]]
  /\ rxXferSize' = 0
  /\ RxCpltCallback
  /\ op' = "rx"
  /\ UNCHANGED <<slaveId, txPacket, userData, wire, pc, result, checkSize, ret,
                 txn, elapsed, calls, txCount, crcData, crcValue>>

\* The condition of the timeout branch of modbusRTUCheckRxState: else if (false)
RxTimeoutElapsed == FALSE

\* Mutant of CheckRxState: the payload is copied out before the flag is tested.
CheckRxState_BusyUnpacks(dataSize, oob) ==
  /\ pc = "idle"
  /\ IF isRxDataReceived
     THEN /\ result' = CheckFrame(rxPacket, slaveId, dataSize, oob)
          /\ userData' = IF result' = MODBUS_RTU_SUCCESS
                         THEN Unpack(userData, rxPacket, dataSize)
                         ELSE userData
          /\ checkSize' = dataSize
          /\ pc' = "reset"
          /\ op' = "decode"
          /\ UNCHANGED ret
     ELSE /\ result' = MODBUS_RTU_RX_BUSY
          /\ ret' = MODBUS_RTU_RX_BUSY
          /\ userData' = Unpack(userData, rxPacket, dataSize)
          /\ op' = "check"
          /\ UNCHANGED <<pc, checkSize>>
  /\ UNCHANGED <<slaveId, isRxDataReceived, txPacket, rxPacket, wire,
                 rxXferSize, txn, elapsed, calls, txCount, crcData, crcValue>>

\* Mutant of CheckRxState: the payload is copied out before the CRC is compared.
CheckRxState_UnpackOnCrcError(dataSize, oob) ==
  /\ pc = "idle"
  /\ IF isRxDataReceived
     THEN /\ result' = CheckFrame(rxPacket, slaveId, dataSize, oob)
          /\ userData' = IF result' # MODBUS_RTU_ERROR_INVALID_SLAVE_ID
                         THEN Unpack(userData, rxPacket, dataSize)
                         ELSE userData
          /\ checkSize' = dataSize
          /\ pc' = "reset"
          /\ op' = "decode"
          /\ UNCHANGED ret
     ELSE /\ result' = MODBUS_RTU_RX_BUSY
          /\ ret' = MODBUS_RTU_RX_BUSY
          /\ op' = "check"
          /\ UNCHANGED <<pc, userData, checkSize>>
  /\ UNCHANGED <<slaveId, isRxDataReceived, txPacket, rxPacket, wire,
                 rxXferSize, txn, elapsed, calls, txCount, crcData, crcValue>>

\* modbusRTUCheckRxState(modbus, data, dataSize), from its entry up to the
\* reset of the flag: the flag is read once and, when set, the packet is
\* checked and unpacked.  The busy branch returns at once.
CheckRxState(dataSize, oob) ==
  /\ pc = "idle"
  /\ IF isRxDataReceived
     THEN /\ result' = CheckFrame(rxPacket, slaveId, dataSize, oob)
          /\ userData' = IF result' = MODBUS_RTU_SUCCESS
                         THEN Unpack(userData, rxPacket, dataSize)
                         ELSE userData
          /\ checkSize' = dataSize
          /\ pc' = "reset"
          /\ op' = "decode"
          /\ UNCHANGED ret
     ELSE IF RxTimeoutElapsed
     THEN /\ result' = MODBUS_RTU_ERROR_RX_TIMEOUT
          /\ pc' = "reset"
          /\ op' = "timeout"
          /\ UNCHANGED <<ret, userData, checkSize>>
     ELSE /\ result' = MODBUS_RTU_RX_BUSY
          /\ ret' = MODBUS_RTU_RX_BUSY
          /\ op' = "check"
          /\ UNCHANGED <<pc, userData, checkSize>>
  /\ UNCHANGED <<slaveId, isRxDataReceived, txPacket, rxPacket, wire,
                 rxXferSize, txn, elapsed, calls, txCount, crcData, crcValue>>

\* Mutant of CheckRxReset: the flag is not reset before the return.
CheckRxReset_KeepsFlag ==
  /\ pc = "reset"
  /\ ret' = result
  /\ pc' = "idle"
  /\ op' = "check"
  /\ txn' = AfterVerdict(txn)
  /\ UNCHANGED <<slaveId, isRxDataReceived, txPacket, rxPacket, userData, wire,
                 rxXferSize, result, checkSize, elapsed, calls, txCount, crcData,
                 crcValue>>

\* modbusRTUCheckRxState, from the reset of the flag to the return.
CheckRxReset ==
  /\ pc = "reset"
  /\ isRxDataReceived' = FALSE
  /\ ret' = result
  /\ pc' = "idle"
  /\ op' = "check"
  /\ txn' = AfterVerdict(txn)
  /\ UNCHANGED <<slaveId, txPacket, rxPacket, userData, wire, rxXferSize,
                 result, checkSize, elapsed, calls, txCount, crcData, crcValue>>

\* The timer started by HAL_TIM_Base_Start_IT counts on.
Tick ==
  /\ elapsed < MaxTime
  /\ elapsed' = Min(elapsed + TickStep, MaxTime)
  /\ UNCHANGED <<slaveId, isRxDataReceived, txPacket, rxPacket, userData, wire,
                 rxXferSize, pc, result, checkSize, ret, op, txn, calls, txCount,
                 crcData, crcValue>>

Send == \E functionCode \in FunctionCodes, data \in TxPayloads, halOk \in BOOLEAN :
          modbusRTUSendData(functionCode, data, Len(data), halOk)

Receive == \E dataSize \in DataSizes : modbusRTUReciveData(dataSize)

Deliver == /\ rxXferSize # 0
           /\ \E frame \in Responses(rxXferSize) : RxComplete(frame)

Check == \E dataSize \in CheckSizes, oob \in OobBytes : CheckRxState(dataSize, oob)

Next == Send \/ Receive \/ Deliver \/ Check \/ CheckRxReset \/ Tick

Spec == Init /\ [][Next]_vars

(* ------------------------------------------------------------------ *)
(* One transaction at the size boundary and on a noisy line            *)
(* ------------------------------------------------------------------ *)
\* A caller that sends (once or twice), arms the receive for the size it
\* sent, and checks once the frame has arrived, with that size or with one
\* past MODBUS_RTU_MAX_DATA_SIZE; payloads go up to and past that maximum.
CodecPayloads == SmallPayloads \cup {<<>>, MaxPayload, OversizePayload}
CodecSizes ==
  (0..MaxSmallLen) \cup {MODBUS_RTU_MAX_DATA_SIZE, MODBUS_RTU_MAX_DATA_SIZE + 1}

\* Bits a noisy line may invert in a frame of n payload bytes, the CRC bytes
\* excluded: every bit of the header and the payload of a short frame; every
\* bit of the header and of the first and the last payload byte of a long one.
TamperBits(n) ==
  IF n <= MaxSmallLen THEN 0..(8 * (n + 2) - 1)
  ELSE (0..23) \cup ((8 * (n + 1))..(8 * (n + 2) - 1))

\* The frames of len bytes a noisy line may deliver: the transmit packet
\* looped back, intact, with its CRC bytes exchanged, or with one bit inverted.
Tampered(len) ==
  LET n == len - 4
      echo == Frame(txPacket, len)
  IN  {echo, SwapCrc(echo, n)} \cup {FlipBit(echo, k) : k \in TamperBits(n)}

CodecSend ==
  /\ op \in {"init", "send"}
  /\ calls < 2
  /\ \E functionCode \in FunctionCodes, data \in CodecPayloads, halOk \in BOOLEAN :
       modbusRTUSendData(functionCode, data, Len(data), halOk)

CodecReceive ==
  /\ op = "send"
  /\ ret = MODBUS_RTU_SUCCESS
  /\ \E dataSize \in CodecSizes :
       /\ dataSize + 4 = Len(wire) \/ InvalidDataSize(dataSize)
       /\ modbusRTUReciveData(dataSize)

CodecDeliver ==
  /\ op = "receive"
  /\ rxXferSize # 0
  /\ \E frame \in Tampered(rxXferSize) : RxComplete(frame)

CodecCheck ==
  /\ op = "rx"
  /\ \E dataSize \in CodecSizes, oob \in OobBytes :
       /\ dataSize + 4 = Len(wire) \/ InvalidDataSize(dataSize)
       /\ CheckRxState(dataSize, oob)

CodecNext == CodecSend \/ CodecReceive \/ CodecDeliver \/ CodecCheck \/ CheckRxReset

CodecSpec == Init /\ [][CodecNext]_vars

(* ------------------------------------------------------------------ *)
(* The polling caller under fair scheduling                            *)
(* ------------------------------------------------------------------ *)
\* Time passes and the caller keeps polling modbusRTUCheckRxState to its
\* return; nothing obliges the bus to ever deliver a frame.
FairSpec ==
  Init /\ [][Next]_vars /\ WF_vars(Tick) /\ WF_vars(Check) /\ WF_vars(CheckRxReset)

(* ------------------------------------------------------------------ *)
(* ModbusRTU_CalculateCRC run on its own                               *)
(* ------------------------------------------------------------------ *)
\* Bytes the sequences are made of.
CrcBytes == {0, 1, 128, 255}

\* The ASCII bytes "123456789".
KnownAnswer == <<49, 50, 51, 52, 53, 54, 55, 56, 57>>

\* A buffer that starts with the bytes of seq; the bytes after them are fill.
CrcBuffer(seq, fill) ==
  [i \in 0..(PacketSize - 1) |-> IF i < Len(seq) THEN seq[i + 1] ELSE fill]

\* ModbusRTU_CalculateCRC(buffer, length) on the sequence so far extended by
\* byte b, held in a buffer whose other bytes are fill.
CrcRun(b, fill) ==
  /\ crcData' = Append(crcData, b)
  /\ crcValue' = ModbusRTU_CalculateCRC(CrcBuffer(crcData', fill), Len(crcData'))
  /\ UNCHANGED <<slaveId, isRxDataReceived, txPacket, rxPacket, userData, wire,
                 rxXferSize, pc, result, checkSize, ret, op, txn, elapsed, calls,
                 txCount>>

CrcShort ==
  /\ Len(crcData) < MaxCrcLen
  /\ \A i \in 1..Len(crcData) : crcData[i] \in CrcBytes
  /\ \E b \in CrcBytes, fill \in OobBytes : CrcRun(b, fill)

CrcKnown ==
  /\ Len(crcData) < Len(KnownAnswer)
  /\ crcData = SubSeq(KnownAnswer, 1, Len(crcData))
  /\ \E fill \in OobBytes : CrcRun(KnownAnswer[Len(crcData) + 1], fill)

CrcNext == CrcShort \/ CrcKnown

CrcSpec == Init /\ [][CrcNext]_vars

(* ------------------------------------------------------------------ *)
(* Properties                                                          *)
(* ------------------------------------------------------------------ *)
\* The frame last handed to the transport, by byte offset.
WireFrame == [i \in 0..(Len(wire) - 1) |-> wire[i + 1]]

\* The receive buffer holds, byte for byte, the frame last built by
\* modbusRTUSendData, and the check in progress was given its payload length.
LoopedBack ==
  /\ op = "decode"
  /\ Len(wire) = checkSize + 4
  /\ Frame(rxPacket, Len(wire)) = WireFrame

\* C1: round trip: when the frame built by modbusRTUSendData is delivered
\* byte for byte and the check is called with the same payload length, the
\* check yields MODBUS_RTU_SUCCESS and the payload that was sent.
C1RoundTrip ==
  LoopedBack =>
    /\ result = MODBUS_RTU_SUCCESS
    /\ \A i \in 0..(checkSize - 1) : userData[i] = wire[i + 3]

\* The receive armed for the current transaction is still waiting for its
\* frame and no notification is pending.
Waiting == txn = "armed" /\ rxXferSize # 0 /\ ~isRxDataReceived

\* C2: timeout: a check called while the armed receive has been waiting for
\* MODBUS_RTU_RECEIVED_TIMEOUT or longer takes the timeout branch, that is
\* returns MODBUS_RTU_ERROR_RX_TIMEOUT.
C2Timeout ==
  [][(Waiting /\ elapsed >= MODBUS_RTU_RECEIVED_TIMEOUT /\ Check)
       => result' = MODBUS_RTU_ERROR_RX_TIMEOUT]_vars

\* C3: single transaction in flight: a send issued while a transaction is
\* pending fails and leaves txPacket and rxPacket as they were.
C3SingleInFlight ==
  [][(Pending /\ Send)
       => (ret' # MODBUS_RTU_SUCCESS /\ UNCHANGED <<txPacket, rxPacket>>)]_vars

\* C4: no transaction stays pending for ever: once the receive is armed, a
\* check eventually returns a terminal result.
C4EventuallyResolved ==
  (txn = "armed") ~> (op = "check" /\ ret \in Terminal)

\* C5: exactly one terminal verdict per transaction: the checks of one
\* transaction (one send, one modbusRTUReciveData) never return a terminal
\* result twice.
C5OneVerdict == txn # "twice"

\* C6: payload size boundary of modbusRTUSendData: above
\* MODBUS_RTU_MAX_DATA_SIZE the call returns MODBUS_RTU_ERROR_INVALID_FRAME,
\* hands nothing to the transport and leaves txPacket unchanged; up to
\* MODBUS_RTU_MAX_DATA_SIZE, with a transport that accepts the frame, it
\* returns MODBUS_RTU_SUCCESS.
C6SizeBoundary ==
  [][\A functionCode \in FunctionCodes, data \in CodecPayloads, halOk \in BOOLEAN :
       modbusRTUSendData(functionCode, data, Len(data), halOk) =>
         IF Len(data) > MODBUS_RTU_MAX_DATA_SIZE
         THEN /\ ret' = MODBUS_RTU_ERROR_INVALID_FRAME
              /\ wire' = <<>>
              /\ txPacket' = txPacket
         ELSE /\ halOk => ret' = MODBUS_RTU_SUCCESS
              /\ Len(wire') = Len(data) + 4]_vars

\* C6 witness: an oversized send was refused while txPacket held the frame of
\* a payload of exactly MODBUS_RTU_MAX_DATA_SIZE bytes built by the send before.
C6Witness ==
  /\ op = "send"
  /\ calls = 2
  /\ ret = MODBUS_RTU_ERROR_INVALID_FRAME
  /\ wire = <<>>
  /\ \A i \in 1..MODBUS_RTU_MAX_DATA_SIZE : txPacket[i + 1] = MaxPayload[i]

\* C7: wrong slave: a received frame whose first byte differs from the
\* configured slave id is answered MODBUS_RTU_ERROR_INVALID_SLAVE_ID, whatever
\* its CRC.
C7WrongSlave ==
  (op = "decode" /\ rxPacket[0] # slaveId)
    => result = MODBUS_RTU_ERROR_INVALID_SLAVE_ID

\* C7 witness: a frame from another slave whose CRC the check would accept
\* was answered MODBUS_RTU_ERROR_INVALID_SLAVE_ID.
C7Witness ==
  /\ op = "decode"
  /\ rxPacket[0] # slaveId
  /\ CheckFrame(rxPacket, rxPacket[0], checkSize, 0) = MODBUS_RTU_SUCCESS
  /\ result = MODBUS_RTU_ERROR_INVALID_SLAVE_ID

\* The receive buffer holds the frame last built by modbusRTUSendData with
\* bit k inverted, and the check in progress was given its payload length.
TamperedAt(k) ==
  /\ op = "decode"
  /\ Len(wire) = checkSize + 4
  /\ rxPacket[k \div 8] # wire[(k \div 8) + 1]
  /\ Frame(rxPacket, Len(wire)) = FlipBit(WireFrame, k)

\* C8 as stated: one inverted bit anywhere in the header or the payload makes
\* the check return MODBUS_RTU_ERROR_CRC.
C8TamperIsCrcError ==
  \A k \in 0..(8 * (checkSize + 2) - 1) :
    TamperedAt(k) => result = MODBUS_RTU_ERROR_CRC

\* C8 amended: one inverted bit in the function code or the payload makes the
\* check return MODBUS_RTU_ERROR_CRC; one inverted bit in the slave id makes
\* it return MODBUS_RTU_ERROR_INVALID_SLAVE_ID.
C8TamperDetected ==
  \A k \in 0..(8 * (checkSize + 2) - 1) :
    TamperedAt(k) =>
      result = IF k < 8 THEN MODBUS_RTU_ERROR_INVALID_SLAVE_ID
               ELSE MODBUS_RTU_ERROR_CRC

\* C8 witness: the last payload bit of a frame of MODBUS_RTU_MAX_DATA_SIZE
\* payload bytes was inverted and the check answered MODBUS_RTU_ERROR_CRC.
C8Witness ==
  /\ checkSize = MODBUS_RTU_MAX_DATA_SIZE
  /\ TamperedAt(8 * (checkSize + 2) - 1)
  /\ result = MODBUS_RTU_ERROR_CRC

\* C9: a completed receive is consumed once: a check that finds the flag set
\* decodes, returns a result other than MODBUS_RTU_RX_BUSY and clears the
\* flag; the check that follows it directly returns MODBUS_RTU_RX_BUSY and
\* leaves the caller's buffer alone.
C9ConsumedOnce ==
  [][/\ (isRxDataReceived /\ Check)
          => (pc' = "reset" /\ result' \in Terminal \ {MODBUS_RTU_ERROR_RX_TIMEOUT})
     /\ CheckRxReset => (ret' = result /\ ret' # MODBUS_RTU_RX_BUSY /\ ~isRxDataReceived')
     /\ (op = "check" /\ ret \in Terminal /\ Check)
          => (ret' = MODBUS_RTU_RX_BUSY /\ pc' = "idle" /\ UNCHANGED userData)]_vars

\* C9 witness: a check unpacked a payload, its flag was consumed, and the
\* next check returned MODBUS_RTU_RX_BUSY.
C9Witness ==
  /\ op = "check"
  /\ ret = MODBUS_RTU_RX_BUSY
  /\ result = MODBUS_RTU_RX_BUSY
  /\ txn = "resolved"
  /\ ~isRxDataReceived
  /\ userData[0] # UserFill

\* C10: modbusRTUReciveData above MODBUS_RTU_MAX_DATA_SIZE returns
\* MODBUS_RTU_ERROR_INVALID_FRAME and arms nothing; otherwise it arms the
\* idle UART for dataSize + 4 bytes and arms a receive timeout of
\* MODBUS_RTU_RECEIVED_TIMEOUT, so that the timeout branch of the check is
\* open once the armed receive has waited that long.
C10ArmsReceiveAndTimeout ==
  /\ [][\A dataSize \in DataSizes :
          modbusRTUReciveData(dataSize) =>
            IF dataSize > MODBUS_RTU_MAX_DATA_SIZE
            THEN ret' = MODBUS_RTU_ERROR_INVALID_FRAME /\ rxXferSize' = rxXferSize
            ELSE rxXferSize = 0 => rxXferSize' = dataSize + 4]_vars
  /\ []((Waiting /\ elapsed >= MODBUS_RTU_RECEIVED_TIMEOUT) => RxTimeoutElapsed)

\* C11: a transmit failure is surfaced without retry: a send of a valid size
\* calls HAL_UART_Transmit exactly once, returns MODBUS_RTU_ERROR_TX_FAILED
\* exactly when that call fails and MODBUS_RTU_SUCCESS otherwise, and starts
\* a transaction only when it succeeded; no other step transmits.
C11TxFailureSurfaced ==
  [][/\ \A functionCode \in FunctionCodes, data \in TxPayloads, halOk \in BOOLEAN :
          (/\ Len(data) <= MODBUS_RTU_MAX_DATA_SIZE
           /\ modbusRTUSendData(functionCode, data, Len(data), halOk)) =>
             /\ txCount' = txCount + 1
             /\ (ret' = MODBUS_RTU_ERROR_TX_FAILED) <=> ~halOk
             /\ (ret' = MODBUS_RTU_SUCCESS) <=> halOk
             /\ txn' = IF halOk THEN "sent" ELSE txn
     /\ ~Send => UNCHANGED <<txCount, wire>>]_vars

\* C11 witness: the first send was handed to the transport once, the
\* transport refused it, and no transaction was started.
C11Witness ==
  /\ op = "send"
  /\ ret = MODBUS_RTU_ERROR_TX_FAILED
  /\ txCount = 1
  /\ calls = 1
  /\ txn = "none"
  /\ Len(wire) > 0

\* The bytes sid, functionCode, payload, in this order.
Body(sid, functionCode, payload) == <<sid, functionCode>> \o payload

\* The request frame of the wire format: the body followed by the CRC of the
\* body, low byte first.
WireFormat(sid, functionCode, payload) ==
  LET body == Body(sid, functionCode, payload)
      crc == ModbusRTU_CalculateCRC([i \in 0..(Len(body) - 1) |-> body[i + 1]],
                                    Len(body))
  IN  body \o <<crc % 256, crc \div 256>>

\* C12: wire format of a request: the frame a send of n <= 250 payload bytes
\* hands to the transport has n + 4 bytes: slave id, function code, the
\* payload in order, then the CRC of these n + 2 bytes, low byte first.
C12WireFormat ==
  [][\A functionCode \in FunctionCodes, data \in CodecPayloads, halOk \in BOOLEAN :
       (/\ Len(data) <= MODBUS_RTU_MAX_DATA_SIZE
        /\ modbusRTUSendData(functionCode, data, Len(data), halOk)) =>
          /\ Len(wire') = Len(data) + 4
          /\ wire' = WireFormat(slaveId, functionCode, data)]_vars

\* C12 witness: a frame of MODBUS_RTU_MAX_DATA_SIZE payload bytes was handed
\* to the transport, and its two CRC bytes differ.
C12Witness ==
  /\ op = "send"
  /\ Len(wire) = MODBUS_RTU_MAX_DATA_SIZE + 4
  /\ wire[1] = slaveId
  /\ wire[Len(wire) - 1] # wire[Len(wire)]

\* a ^ b on 16-bit values, bit by bit.
RefXor(a, b) ==
  LET x(k) == ((Bit(a, k) + Bit(b, k)) % 2) * (2 ^ k)
  IN  x(0) + x(1) + x(2) + x(3) + x(4) + x(5) + x(6) + x(7)
      + x(8) + x(9) + x(10) + x(11) + x(12) + x(13) + x(14) + x(15)

\* One step of the reference algorithm: shift right by one, and exclusive-or
\* with 0xA001 when the bit shifted out was 1.
RefStep(acc) ==
  IF acc % 2 = 1 THEN RefXor(acc \div 2, 40961) ELSE acc \div 2

\* The reference algorithm on one byte: exclusive-or into the low byte, then
\* eight steps.
RefByte(acc, byte) ==
  RefStep(RefStep(RefStep(RefStep(RefStep(RefStep(RefStep(RefStep(
    RefXor(acc, byte)))))))))

RECURSIVE RefCrc(_)
\* CRC-16/MODBUS of a byte sequence by the reference algorithm: the
\* accumulator starts at 0xFFFF.
RefCrc(seq) ==
  IF seq = <<>> THEN 65535
  ELSE RefByte(RefCrc(SubSeq(seq, 1, Len(seq) - 1)), seq[Len(seq)])

\* C13: CRC engine: ModbusRTU_CalculateCRC returns the CRC-16/MODBUS value
\* of the reference algorithm, within 0..0xFFFF, whatever the buffer holds
\* after the bytes it is given; the empty sequence gives 0xFFFF and
\* "123456789" gives 0x4B37 (19255).
C13CrcEngine ==
  /\ crcValue \in 0..65535
  /\ crcValue = RefCrc(crcData)
  /\ crcData = <<>> => crcValue = 65535
  /\ crcData = KnownAnswer => crcValue = 19255

\* C13 witness: the CRC of "123456789" was computed and is 0x4B37.
C13Witness ==
  /\ crcData = KnownAnswer
  /\ crcValue = 75 * 256 + 55

\* C14: no stale notification after resolution: when modbusRTUCheckRxState
\* has returned a terminal result, no receive is left armed, so that no
\* notification can set the flag or write rxPacket before the next
\* modbusRTUReciveData.  Stated for the results computed on received bytes
\* (rxPacket is no longer the zero packet).
C14NoStaleNotification ==
  (op = "check" /\ ret \in Terminal /\ rxPacket # ZeroPacket) => rxXferSize = 0

\* C15: flag hand-off: a call of modbusRTUCheckRxState that read the flag
\* clear does not decode, and a notification that arrives while a call is
\* executing (between its read of the flag and its return) is not lost: the
\* flag it set is still set when the call returns, for the next call to see.
\* The second part is stated for the calls that are answering a frame
\* addressed to this master (a result other than
\* MODBUS_RTU_ERROR_INVALID_SLAVE_ID).
C15FlagHandOff ==
  [][/\ (~isRxDataReceived /\ Check)
          => (pc' = "idle" /\ op' # "decode" /\ UNCHANGED userData)
     /\ (/\ op = "rx"
         /\ pc = "reset"
         /\ result # MODBUS_RTU_ERROR_INVALID_SLAVE_ID
         /\ CheckRxReset) => isRxDataReceived']_vars

\* C16: Busy is side-effect free: a check called while the flag is clear
\* returns MODBUS_RTU_RX_BUSY and leaves the flag, rxPacket, the armed
\* receive, the caller's buffer and the transaction as they were, however
\* long the receive has been waiting.
C16BusyNoEffect ==
  [][(~isRxDataReceived /\ Check) =>
       /\ ret' = MODBUS_RTU_RX_BUSY
       /\ pc' = "idle"
       /\ UNCHANGED <<isRxDataReceived, rxPacket, rxXferSize, userData, txn,
                      txPacket, slaveId>>]_vars

\* C16 witness: a poll of an armed transaction that has been waiting for
\* some time returned MODBUS_RTU_RX_BUSY, and the receive is still armed and
\* the caller's buffer untouched.
C16Witness ==
  /\ Waiting
  /\ op = "check"
  /\ ret = MODBUS_RTU_RX_BUSY
  /\ result = MODBUS_RTU_RX_BUSY
  /\ elapsed > 0
  /\ \A i \in DOMAIN userData : userData[i] = UserFill

\* C17: the slave id is fixed at initialisation: no step changes slaveId,
\* every frame handed to the transport starts with it, and a check in
\* progress answers MODBUS_RTU_ERROR_INVALID_SLAVE_ID exactly when the first
\* received byte differs from it.
C17SlaveIdFixed ==
  /\ [][slaveId' = slaveId]_vars
  /\ [](Len(wire) > 0 => wire[1] = slaveId)
  /\ [](op = "decode" =>
          ((result = MODBUS_RTU_ERROR_INVALID_SLAVE_ID) <=> (rxPacket[0] # slaveId)))

\* C17 witness: slave 17 sent a frame and afterwards accepted a frame that
\* carries its id.
C17Witness ==
  /\ slaveId = 17
  /\ Len(wire) > 0
  /\ wire[1] = 17
  /\ op = "decode"
  /\ rxPacket[0] = 17
  /\ result = MODBUS_RTU_SUCCESS

\* C18: the initial state has the flag clear: as long as no receive was ever
\* armed (so no notification can have occurred), the flag is clear and no
\* check decodes rxPacket.
C18InitialFlagClear ==
  calls = 0 => (~isRxDataReceived /\ pc = "idle" /\ op # "decode")

\* Offset in rxPacket of the last byte read by the check in progress: the
\* slave id alone when it differs, else the second CRC byte
\* rxPacket.data[dataSize + 1].
RxLastOffset ==
  IF result = MODBUS_RTU_ERROR_INVALID_SLAVE_ID THEN 0 ELSE checkSize + 3

\* C19: buffer bounds: every byte of rxPacket a check reads lies inside the
\* PacketSize bytes of the packet, whatever dataSize it is given.
C19BufferBounds ==
  op = "decode" => RxLastOffset < PacketSize

\* C20: the caller's buffer is written only on success: a check that yields
\* MODBUS_RTU_SUCCESS writes exactly the dataSize bytes that follow the
\* two-byte header of rxPacket; a check that yields any other result, and
\* every other step, leaves the buffer as it was.
C20OutputOnlyOnSuccess ==
  [][/\ \A dataSize \in CheckSizes, oob \in OobBytes :
          CheckRxState(dataSize, oob) =>
            IF result' = MODBUS_RTU_SUCCESS
            THEN \A i \in DOMAIN userData :
                   userData'[i] = IF i < dataSize THEN rxPacket[i + 2] ELSE userData[i]
            ELSE UNCHANGED userData
     /\ ~Check => UNCHANGED userData]_vars

\* C20 witness: a check accepted a frame and the caller's buffer holds its
\* one payload byte, followed by what it held before.
C20Witness ==
  /\ op = "decode"
  /\ result = MODBUS_RTU_SUCCESS
  /\ checkSize = 1
  /\ userData[0] = rxPacket[2]
  /\ userData[0] # UserFill
  /\ userData[1] = UserFill

====
